---- MODULE Spec2Model ----
(***************************************************************************)
(* bevy_mod_reaction (src/src/lib.rs): reactions are re-run by the driver  *)
(* `react` when the data their parameters read has changed.                *)
(*                                                                         *)
(* The store (a bevy World) is modelled by its change ticks: the world's   *)
(* change_tick and last_change_tick, one `changed` tick per component row  *)
(* and per resource, the Reaction component of each identity, and the      *)
(* world's command queue.  A Reaction handle (Arc<Mutex<Box<dyn            *)
(* ReactiveSystem>>>) is modelled by its Option<State>, its mutex's poison *)
(* flag, and the parameter shape and user logic it was built from.         *)
(***************************************************************************)
EXTENDS Integers, Sequences, FiniteSets, TLC

(* ------------------------------ bounds -------------------------------- *)

\* The world's change tick is not advanced past this value.
MaxTick == 12

\* The world's command queue holds at most this many commands.
MaxQueue == 2

\* The application detaches a Reaction at most this many times.
MaxDetach == 1

(* ------------------------- the store's contents ----------------------- *)

\* Component rows a store can hold: <<entity, component>>.
AllRows == { <<"E1", "X">>, <<"E2", "X">>, <<"E1", "Z">> }

\* Entities that match the user filter "F" (a row of E2 never matches it).
MatchesF == { "E1" }

AllResources == { "Y", "W" }

\* Identities that can carry a Reaction, and the Reaction handles.
Ids == { "r1", "r2", "r3" }
Handles == { "h1", "h2", "h3" }

None == << >>
Some(v) == << v >>

(* --------------------------- parameter shapes ------------------------- *)

PCommands == [k |-> "Commands"]
PRes(r) == [k |-> "Res", r |-> r]
PQuery(c, f) == [k |-> "Query", c |-> c, f |-> f]
PTuple1(a) == [k |-> "Tuple1", a |-> a]
PTuple2(a, b) == [k |-> "Tuple2", a |-> a, b |-> b]

\* Commands a user logic can enqueue through its command sink.
CmdMutate(row) == [op |-> "mutate", row |-> row]
CmdSetRes(r) == [op |-> "setres", r |-> r]
CmdSpawn(e, h) == [op |-> "spawn", e |-> e, h |-> h]
CmdInit(e) == [op |-> "init", e |-> e]

\* In place of a command: the user logic can panic instead of returning.
CmdPanic == [op |-> "panic"]

\* A reaction of a scenario: its parameter shape (F::Param), the commands its
\* user logic enqueues when run (none without a sink) and the identities the
\* application attaches it to (none for a reaction that only another
\* reaction's logic spawns).
Reaction(param, logic, at) == [param |-> param, logic |-> logic, at |-> at]

Absent == Reaction(PCommands, << >>, {})

\* How a resource is named among the data a reaction reads.
ResKey(r) == <<"Res", r>>

RX == <<"E1", "X">>
RZ == <<"E1", "Z">>
RX2 == <<"E2", "X">>

\* The worlds the model is run on: the rows and resources of the store and
\* the reactions built for it.
Scenarios ==
    << \* 1: an accessor reaction
       [rows |-> { RX, RZ }, resources |-> {},
        h1 |-> Reaction(PQuery("X", "None"), << >>, { "r1" }),
        h2 |-> Absent,
        h3 |-> Absent, detach |-> {}],
       \* 2: a two-accessor tuple
       [rows |-> { RX, RZ }, resources |-> {},
        h1 |-> Reaction(PTuple2(PQuery("X", "None"), PQuery("Z", "None")), << >>, { "r1" }),
        h2 |-> Absent,
        h3 |-> Absent, detach |-> {}],
       \* 3: an accessor and a resource in one tuple
       [rows |-> { RX }, resources |-> { "Y" },
        h1 |-> Reaction(PTuple2(PQuery("X", "None"), PRes("Y")), << >>, { "r1" }),
        h2 |-> Absent,
        h3 |-> Absent, detach |-> {}],
       \* 4: a reaction whose logic mutates, through the sink, what another reads
       [rows |-> { RX, RZ }, resources |-> {},
        h1 |-> Reaction(PTuple2(PCommands, PQuery("Z", "None")), << CmdMutate(RX) >>, { "r1" }),
        h2 |-> Reaction(PTuple1(PQuery("X", "None")), << >>, { "r2" }),
        h3 |-> Absent, detach |-> {}],
       \* 5: a reaction whose logic spawns an entity carrying another reaction
       [rows |-> { RX }, resources |-> { "Y" },
        h1 |-> Reaction(PTuple2(PCommands, PRes("Y")), << CmdSpawn("r3", "h3") >>, { "r1" }),
        h2 |-> Absent,
        h3 |-> Reaction(PQuery("X", "None"), << >>, {}), detach |-> {}],
       \* 6: a reaction whose only parameter is a command sink
       [rows |-> { RX }, resources |-> { "W" },
        h1 |-> Reaction(PCommands, << CmdSetRes("W") >>, { "r1" }),
        h2 |-> Absent,
        h3 |-> Absent, detach |-> {}],
       \* 7: a resource reaction
       [rows |-> { RX }, resources |-> { "Y", "W" },
        h1 |-> Reaction(PRes("Y"), << >>, { "r1" }),
        h2 |-> Absent,
        h3 |-> Absent, detach |-> {}],
       \* 8: an accessor reaction whose clones are attached to two identities
       [rows |-> { RX }, resources |-> {},
        h1 |-> Reaction(PQuery("X", "None"), << >>, { "r1", "r2" }),
        h2 |-> Absent,
        h3 |-> Absent, detach |-> {}],
       \* 9: an accessor reaction whose user logic can panic
       [rows |-> { RX }, resources |-> {},
        h1 |-> Reaction(PQuery("X", "None"), << CmdPanic >>, { "r1" }),
        h2 |-> Absent,
        h3 |-> Absent, detach |-> {}],
       \* 10: an accessor with a filter that one of the two rows matches
       [rows |-> { RX, RX2 }, resources |-> {},
        h1 |-> Reaction(PQuery("X", "F"), << >>, { "r1" }),
        h2 |-> Absent,
        h3 |-> Absent, detach |-> {}],
       \* 11: two reactions for one identity, which the application can detach
       [rows |-> { RX }, resources |-> {},
        h1 |-> Reaction(PQuery("X", "None"), << >>, { "r1" }),
        h2 |-> Reaction(PCommands, << >>, { "r1" }),
        h3 |-> Absent, detach |-> { "r1" }] >>

VARIABLES
    scenario,          \* which of Scenarios this world was built for
    change_tick,       \* World::change_tick
    last_change_tick,  \* World::last_change_tick
    comp,              \* row -> its `changed` tick
    res,               \* resource -> its `changed` tick
    attached,          \* identity -> None | Some(handle): its Reaction component
    state,             \* handle -> None | Some(S): FunctionReactiveSystem::state
    poisoned,          \* handle -> the mutex was poisoned by a panic
    queue,             \* the world's command queue
    pc,                \* "idle" | "sweep": whether `react` is executing
    todo,              \* identities the running sweep has still to visit
    cur,               \* None | Some(turn): the reaction whose lock is held
    runs,              \* handle -> calls of `run` in the current (or last) sweep
    inits,             \* handle -> calls of `init` so far
    dirty,             \* handle -> data it reads was written since it last ran
    fresh,             \* handle -> the data it reads written since its last turn
    seen,              \* handle -> it has had a turn since it was initialised
    panics,            \* number of flushes ended by a panicking command
    locked,            \* handles whose mutex is locked
    visit,             \* identity -> calls of is_changed and of run on its
                       \* Reaction made by the current (or last) sweep
    detaches           \* number of Reactions the application has detached

vars == << scenario, change_tick, last_change_tick, comp, res, attached, state,
           poisoned, queue, pc, todo, cur, runs, inits, dirty, fresh, seen,
           panics, locked, visit, detaches >>

ParamOf(h) == Scenarios[scenario][h].param
LogicOf(h) == Scenarios[scenario][h].logic
Rows == Scenarios[scenario].rows
Resources == Scenarios[scenario].resources

(* ------------------ the store's change detection ----------------------- *)

\* Age beyond which the store treats every change as old (bevy's
\* MAX_CHANGE_AGE); here any value larger than MaxTick + 1 behaves alike.
MAX_CHANGE_AGE == 1000

Min(a, b) == IF a < b THEN a ELSE b

\* Tick::is_newer_than, as evaluated by the Changed<T> filter of the
\* accessor's first query and by Ref::is_changed of a resource.
IsNewerThan(changed, last_run, this_run) ==
    Min(this_run - last_run, MAX_CHANGE_AGE) > Min(this_run - changed, MAX_CHANGE_AGE)

\* The view of the store that a DeferredWorld gives.
WorldView == [tick |-> change_tick, last |-> last_change_tick, comp |-> comp, res |-> res]

\* SystemState::new(world): the state's last_run starts MAX_CHANGE_AGE ago.
SystemState_new(tick) == [last_run |-> tick - MAX_CHANGE_AGE]

\* (mutant) get evaluates the queries without storing this_run as last_run.
SystemState_get_NoStore(s, w) ==
    [st |-> s, tick |-> w.tick + 1, last_run |-> s.last_run, this_run |-> w.tick]

\* SystemState::get(&world): takes the world's tick as this_run, advances the
\* world's tick, evaluates the queries against the old last_run and stores
\* this_run as the new last_run.
SystemState_get(s, w) ==
    [st |-> [last_run |-> w.tick], tick |-> w.tick + 1,
     last_run |-> s.last_run, this_run |-> w.tick]

\* The rows a Query<&c, f> ranges over.
QueryRows(c, f) == { row \in Rows : row[2] = c /\ (f = "F" => row[1] \in MatchesF) }

(* ------------------ ReactiveQueryData<F> for &T ------------------------ *)

RQD_init(tick) == SystemState_new(tick)

\* (mutant) the Changed<T> query is built without the user filter.
RQD_is_changed_NoFilter(c, f, s, w) ==
    LET g == SystemState_get(s, w)
        ch == \E row \in QueryRows(c, "None") :
                  IsNewerThan(w.comp[row], g.last_run, g.this_run)
    IN  [res |-> ch, st |-> g.st, tick |-> g.tick,
         calls |-> << [p |-> PQuery(c, f), res |-> ch] >>]

RQD_is_changed(c, f, s, w) ==
    LET g == SystemState_get(s, w)
        ch == \E row \in QueryRows(c, f) :
                  IsNewerThan(w.comp[row], g.last_run, g.this_run)
    IN  [res |-> ch, st |-> g.st, tick |-> g.tick,
         calls |-> << [p |-> PQuery(c, f), res |-> ch] >>]

\* (mutant) get reads the store without going through the SystemState.
RQD_get_NoAdvance(c, f, s, w) == [st |-> s, tick |-> w.tick]

RQD_get(c, f, s, w) ==
    LET g == SystemState_get(s, w)
    IN  [st |-> g.st, tick |-> g.tick]

(* ------------------ ReactiveSystemParam -------------------------------- *)

Unit == "unit"

\* (mutant) the command sink reports change.
Commands_is_changed_Always(s, w) ==
    [res |-> TRUE, st |-> s, tick |-> w.tick,
     calls |-> << [p |-> PCommands, res |-> TRUE] >>]

Commands_is_changed(s, w) ==
    [res |-> FALSE, st |-> s, tick |-> w.tick,
     calls |-> << [p |-> PCommands, res |-> FALSE] >>]

\* (mutant) the flag of any resource of the store counts.
Res_is_changed_AnyResource(r, s, w) ==
    LET ch == \E q \in Resources : IsNewerThan(w.res[q], w.last, w.tick)
    IN  [res |-> ch, st |-> s, tick |-> w.tick, calls |-> << [p |-> PRes(r), res |-> ch] >>]

Res_is_changed(r, s, w) ==
    LET ch == IsNewerThan(w.res[r], w.last, w.tick)
    IN  [res |-> ch, st |-> s, tick |-> w.tick, calls |-> << [p |-> PRes(r), res |-> ch] >>]

\* (T1, T2)::is_changed: `T1::is_changed(..) || T2::is_changed(..)`.  r1 is
\* T1's outcome and r2 the outcome of T2 run after it; Rust's `||` evaluates
\* its right operand only when the left one is false.
\* (mutants) `|` in place of `||`, and `&&` in place of `||`.
Tuple2_is_changed_Eager(r1, r2, s) ==
    [res |-> r1.res \/ r2.res, st |-> << r1.st, r2.st >>, tick |-> r2.tick,
     calls |-> r1.calls \o r2.calls]

Tuple2_is_changed_And(r1, r2, s) ==
    IF ~r1.res
    THEN [res |-> FALSE, st |-> << r1.st, s[2] >>, tick |-> r1.tick, calls |-> r1.calls]
    ELSE [res |-> r2.res, st |-> << r1.st, r2.st >>, tick |-> r2.tick,
          calls |-> r1.calls \o r2.calls]

Tuple2_is_changed(r1, r2, s) ==
    IF r1.res
    THEN [res |-> TRUE, st |-> << r1.st, s[2] >>, tick |-> r1.tick, calls |-> r1.calls]
    ELSE [res |-> r2.res, st |-> << r1.st, r2.st >>, tick |-> r2.tick,
          calls |-> r1.calls \o r2.calls]

RECURSIVE init(_, _)
init(p, tick) ==
    CASE p.k = "Commands" -> Unit
      [] p.k = "Res" -> Unit
      [] p.k = "Query" -> RQD_init(tick)
      [] p.k = "Tuple1" -> init(p.a, tick)
      [] p.k = "Tuple2" -> << init(p.a, tick), init(p.b, tick) >>

RECURSIVE is_changed(_, _, _)
is_changed(p, s, w) ==
    CASE p.k = "Commands" -> Commands_is_changed(s, w)
      [] p.k = "Res" -> Res_is_changed(p.r, s, w)
      [] p.k = "Query" -> RQD_is_changed(p.c, p.f, s, w)
      [] p.k = "Tuple1" -> is_changed(p.a, s, w)
      [] p.k = "Tuple2" ->
            LET r1 == is_changed(p.a, s[1], w)
                r2 == is_changed(p.b, s[2], [w EXCEPT !.tick = r1.tick])
            IN  Tuple2_is_changed(r1, r2, s)

\* get: the view handed to the user logic is the store itself; what the model
\* keeps of it is the effect on the parameter's state and on the world's tick.
RECURSIVE get(_, _, _)
get(p, s, w) ==
    CASE p.k = "Commands" -> [st |-> s, tick |-> w.tick]
      [] p.k = "Res" -> [st |-> s, tick |-> w.tick]
      [] p.k = "Query" -> RQD_get(p.c, p.f, s, w)
      [] p.k = "Tuple1" -> get(p.a, s, w)
      [] p.k = "Tuple2" ->
            LET g1 == get(p.a, s[1], w)
                g2 == get(p.b, s[2], [w EXCEPT !.tick = g1.tick])
            IN  [st |-> << g1.st, g2.st >>, tick |-> g2.tick]

\* Whether the parameter hands a command sink to the user logic.
RECURSIVE HasSink(_)
HasSink(p) ==
    CASE p.k = "Commands" -> TRUE
      [] p.k = "Tuple1" -> HasSink(p.a)
      [] p.k = "Tuple2" -> HasSink(p.a) \/ HasSink(p.b)
      [] OTHER -> FALSE

\* The data a parameter reads: component rows and resources.
RECURSIVE ReadRows(_)
ReadRows(p) ==
    CASE p.k = "Query" -> QueryRows(p.c, p.f)
      [] p.k = "Tuple1" -> ReadRows(p.a)
      [] p.k = "Tuple2" -> ReadRows(p.a) \cup ReadRows(p.b)
      [] OTHER -> {}

RECURSIVE ReadRes(_)
ReadRes(p) ==
    CASE p.k = "Res" -> { p.r }
      [] p.k = "Tuple1" -> ReadRes(p.a)
      [] p.k = "Tuple2" -> ReadRes(p.a) \cup ReadRes(p.b)
      [] OTHER -> {}

\* Number of accessor leaves of a parameter: each advances the world's tick
\* once in is_changed and once in get.
RECURSIVE Accessors(_)
Accessors(p) ==
    CASE p.k = "Query" -> 1
      [] p.k = "Tuple1" -> Accessors(p.a)
      [] p.k = "Tuple2" -> Accessors(p.a) + Accessors(p.b)
      [] OTHER -> 0

\* Handles whose parameter reads the row, or the resource.
ReadersOfRow(row) == { h \in Handles : row \in ReadRows(ParamOf(h)) }
ReadersOfRes(r) == { h \in Handles : r \in ReadRes(ParamOf(h)) }

(* ------------------ FunctionReactiveSystem ----------------------------- *)

\* init: self.state = Some(F::Param::init(world)), whatever the state was.
FRS_init(old, p, tick) == Some(init(p, tick))

\* is_changed: F::Param::is_changed(world, self.state.as_mut().unwrap()).
FRS_is_changed(p, st, w) == is_changed(p, st[1], w)

\* run: the parameter's get, then the user logic, which enqueues its commands
\* on the sink that get handed to it.
FRS_run(p, st, w, logic) ==
    LET g == get(p, st[1], w)
    IN  [st |-> Some(g.st), tick |-> g.tick,
         cmds |-> IF HasSink(p) THEN logic ELSE << >>]

\* ReactiveSystemParamFunction::run: the user logic is called with
\* Scope { entity, input } and the parameter.
\* (mutant) the Scope carries a fixed identity.
RSPF_run_Placeholder(input, entity) == [entity |-> "r1", input |-> input]

RSPF_run(input, entity) == [entity |-> entity, input |-> input]

\* Whether the user logic of a reaction can panic.
MayPanic(h) == \E i \in 1..Len(LogicOf(h)) : LogicOf(h)[i] = CmdPanic

\* The exclusive views of the store (&mut DeferredWorld) that are live
\* together while get builds the parameter: a leaf's item borrows the one
\* view it was given; (T,) passes its view on; (T1, T2) makes two views of
\* the same store from a raw pointer, and T1's item is alive, borrowing the
\* first, while T2's get uses the second.
RECURSIVE LiveViews(_)
LiveViews(p) ==
    CASE p.k = "Tuple1" -> LiveViews(p.a)
      [] p.k = "Tuple2" -> LiveViews(p.a) + LiveViews(p.b)
      [] OTHER -> 1

(* ------------------ the world's command queue -------------------------- *)

\* The closure queued by the on_insert hook, applied to the world W: it looks
\* the Reaction of the entity up, locks it and calls init.  The lookup's and
\* the lock's unwrap panic when the entity carries no Reaction and when the
\* mutex is poisoned.
InitCommandPanics(e, W) ==
    \/ W.attached[e] = None
    \/ W.poisoned[W.attached[e][1]]

ApplyInit(e, W) ==
    LET h == W.attached[e][1]
    IN  [W EXCEPT !.state[h] = FRS_init(W.state[h], ParamOf(h), W.tick),
                  !.inits[h] = @ + 1,
                  !.seen[h] = FALSE]

\* One command applied to the world W.  A write made by a command stamps the
\* data with the world's current tick.  Inserting Reaction h on a new entity
\* fires the on_insert hook, which queues the init closure.
ApplyCommand(c, W) ==
    CASE c.op = "mutate" ->
            [W EXCEPT !.comp[c.row] = W.tick,
                      !.dirty = [h \in Handles |-> @[h] \/ h \in ReadersOfRow(c.row)],
                      !.fresh = [h \in Handles |->
                                    IF h \in ReadersOfRow(c.row)
                                    THEN @[h] \cup { c.row } ELSE @[h]]]
      [] c.op = "setres" ->
            [W EXCEPT !.res[c.r] = W.tick,
                      !.dirty = [h \in Handles |-> @[h] \/ h \in ReadersOfRes(c.r)],
                      !.fresh = [h \in Handles |->
                                    IF h \in ReadersOfRes(c.r)
                                    THEN @[h] \cup { ResKey(c.r) } ELSE @[h]]]
      [] c.op = "spawn" ->
            IF W.attached[c.e] = None
            THEN [W EXCEPT !.attached[c.e] = Some(c.h),
                           !.queue = Append(@, CmdInit(c.e))]
            ELSE W
      [] c.op = "init" -> ApplyInit(c.e, W)

\* The queue is applied from its head until it is empty, commands queued
\* meanwhile included; a command that panics is consumed and ends the flush.
\* (mutant) an init closure that finds no Reaction returns silently.
RECURSIVE ApplyQueue_SkipMissing(_)
ApplyQueue_SkipMissing(W) ==
    IF W.queue = << >> THEN W
    ELSE LET c == Head(W.queue)
             V == [W EXCEPT !.queue = Tail(@)]
         IN  IF c.op = "init" /\ V.attached[c.e] = None
             THEN ApplyQueue_SkipMissing(V)
             ELSE IF c.op = "init" /\ InitCommandPanics(c.e, V)
             THEN [V EXCEPT !.panics = @ + 1]
             ELSE ApplyQueue_SkipMissing(ApplyCommand(c, V))

RECURSIVE ApplyQueue(_)
ApplyQueue(W) ==
    IF W.queue = << >> THEN W
    ELSE LET c == Head(W.queue)
             V == [W EXCEPT !.queue = Tail(@)]
         IN  IF c.op = "init" /\ InitCommandPanics(c.e, V)
             THEN [V EXCEPT !.panics = @ + 1]
             ELSE ApplyQueue(ApplyCommand(c, V))

(* ------------------------------ Init ----------------------------------- *)

\* A new world: its change tick is 1 and its last change tick 0; the data was
\* inserted at tick 1; no Reaction is attached yet.
Init ==
    /\ scenario \in 1..Len(Scenarios)
    /\ change_tick = 1
    /\ last_change_tick = 0
    /\ comp = [row \in Rows |-> 1]
    /\ res = [r \in Resources |-> 1]
    /\ attached = [e \in Ids |-> None]
    /\ state = [h \in Handles |-> None]
    /\ poisoned = [h \in Handles |-> FALSE]
    /\ queue = << >>
    /\ pc = "idle"
    /\ todo = {}
    /\ cur = None
    /\ runs = [h \in Handles |-> 0]
    /\ inits = [h \in Handles |-> 0]
    /\ dirty = [h \in Handles |-> TRUE]
    /\ fresh = [h \in Handles |-> {}]
    /\ seen = [h \in Handles |-> FALSE]
    /\ panics = 0
    /\ locked = {}
    /\ visit = [e \in Ids |-> [checks |-> 0, runs |-> 0]]
    /\ detaches = 0

(* ------------------ what the application does to the store ------------- *)

\* Reaction::new and the insertion of the Reaction (or of a clone of it) on an
\* identity through the world: the on_insert hook queues the init closure.
Attach(e, h) ==
    /\ pc = "idle"
    /\ e \in Scenarios[scenario][h].at
    /\ attached[e] = None
    /\ attached' = [attached EXCEPT ![e] = Some(h)]
    /\ queue' = Append(queue, CmdInit(e))
    /\ UNCHANGED << scenario, change_tick, last_change_tick, comp, res, state, poisoned,
                    pc, todo, cur, runs, inits, dirty, fresh, seen, panics, locked,
                    visit, detaches >>

\* The application removes the Reaction from an identity, or despawns it: a
\* query for (Entity, &Reaction) no longer yields the identity.
Detach(e) ==
    /\ pc = "idle"
    /\ e \in Scenarios[scenario].detach
    /\ attached[e] # None
    /\ detaches < MaxDetach
    /\ attached' = [attached EXCEPT ![e] = None]
    /\ detaches' = detaches + 1
    /\ UNCHANGED << scenario, change_tick, last_change_tick, comp, res, state, poisoned,
                    queue, pc, todo, cur, runs, inits, dirty, fresh, seen, panics,
                    locked, visit >>

\* The world applies its command queue (never while `react` holds the world).
Flush ==
    /\ pc = "idle"
    /\ queue # << >>
    /\ LET W == ApplyQueue([tick |-> change_tick, comp |-> comp, res |-> res,
                            attached |-> attached, state |-> state,
                            poisoned |-> poisoned, queue |-> queue, inits |-> inits,
                            dirty |-> dirty, fresh |-> fresh, seen |-> seen,
                            panics |-> panics])
       IN  /\ comp' = W.comp
           /\ res' = W.res
           /\ attached' = W.attached
           /\ state' = W.state
           /\ queue' = W.queue
           /\ inits' = W.inits
           /\ dirty' = W.dirty
           /\ fresh' = W.fresh
           /\ seen' = W.seen
           /\ panics' = W.panics
    /\ UNCHANGED << scenario, change_tick, last_change_tick, poisoned, pc, todo, cur,
                    runs, locked, visit, detaches >>

\* Another system, or the application through the world, writes a component:
\* the row is stamped with the world's tick.
Mutate(row) ==
    /\ pc = "idle"
    /\ row \in Rows
    /\ comp' = [comp EXCEPT ![row] = change_tick]
    /\ dirty' = [h \in Handles |-> dirty[h] \/ h \in ReadersOfRow(row)]
    /\ fresh' = [h \in Handles |->
                    IF h \in ReadersOfRow(row) THEN fresh[h] \cup { row } ELSE fresh[h]]
    /\ UNCHANGED << scenario, change_tick, last_change_tick, res, attached, state,
                    poisoned, queue, pc, todo, cur, runs, inits, seen, panics, locked,
                    visit, detaches >>

\* The same for a resource.
SetRes(r) ==
    /\ pc = "idle"
    /\ r \in Resources
    /\ res' = [res EXCEPT ![r] = change_tick]
    /\ dirty' = [h \in Handles |-> dirty[h] \/ h \in ReadersOfRes(r)]
    /\ fresh' = [h \in Handles |->
                    IF h \in ReadersOfRes(r) THEN fresh[h] \cup { ResKey(r) } ELSE fresh[h]]
    /\ UNCHANGED << scenario, change_tick, last_change_tick, comp, attached, state,
                    poisoned, queue, pc, todo, cur, runs, inits, seen, panics, locked,
                    visit, detaches >>

\* World::clear_trackers at the end of a frame: the world's last change tick
\* becomes its change tick, which advances.
ClearTrackers ==
    /\ pc = "idle"
    /\ change_tick + 1 <= MaxTick
    /\ last_change_tick' = change_tick
    /\ change_tick' = change_tick + 1
    /\ UNCHANGED << scenario, comp, res, attached, state, poisoned, queue, pc, todo,
                    cur, runs, inits, dirty, fresh, seen, panics, locked, visit,
                    detaches >>

(* ------------------------------ react ---------------------------------- *)

Attached == { e \in Ids : attached[e] # None }

RECURSIVE SweepTicks(_)
SweepTicks(S) ==
    IF S = {} THEN 0
    ELSE LET e == CHOOSE x \in S : TRUE
         IN  2 * Accessors(ParamOf(attached[e][1])) + SweepTicks(S \ {e})

RECURSIVE SweepCommands(_)
SweepCommands(S) ==
    IF S = {} THEN 0
    ELSE LET e == CHOOSE x \in S : TRUE
         IN  Len(LogicOf(attached[e][1])) + SweepCommands(S \ {e})

\* The scheduler runs `react`: the query yields the attached pairs.  (A sweep
\* starts only if the ticks it can consume stay within MaxTick and the
\* commands it can enqueue within MaxQueue.)
SweepStart ==
    /\ pc = "idle"
    /\ change_tick + SweepTicks(Attached) <= MaxTick
    /\ Len(queue) + SweepCommands(Attached) <= MaxQueue
    /\ pc' = "sweep"
    /\ todo' = Attached
    /\ runs' = [h \in Handles |-> 0]
    /\ visit' = [e \in Ids |-> [checks |-> 0, runs |-> 0]]
    /\ UNCHANGED << scenario, change_tick, last_change_tick, comp, res, attached, state,
                    poisoned, queue, cur, inits, dirty, fresh, seen, panics, locked,
                    detaches >>

\* What is known of the turn of identity e: the outcome of is_changed, the
\* member checks it executed, the Option<State> before it, after it and after
\* run, what was known of the data when it began, why it panicked if it did,
\* the Scope handed to the user logic and the number of exclusive views of the
\* store that were live together while run's get built the parameter.
Turn(e, h, phase, changed, calls, before, checked) ==
    [e |-> e, h |-> h, phase |-> phase, changed |-> changed, ran |-> FALSE,
     calls |-> calls, before |-> before, checked |-> checked, after |-> checked,
     dirty |-> dirty[h], fresh |-> fresh[h], seen |-> seen[h],
     why |-> "", scope |-> None, views |-> 0]

\* (mutant) the poison of the mutex is ignored (the guard is taken out of the
\* PoisonError).
ReactCheck_IgnorePoison(e) ==
    /\ pc = "sweep"
    /\ cur = None
    /\ e \in todo
    /\ LET h == attached[e][1]
           panicked == Turn(e, h, "panicked", FALSE, << >>, state[h], state[h])
       IN  /\ h \notin locked
           /\ locked' = locked \cup { h }
           /\ visit' = [visit EXCEPT ![e].checks = @ + 1]
           /\ IF state[h] = None
              THEN /\ poisoned' = [poisoned EXCEPT ![h] = TRUE]
                   /\ cur' = Some([panicked EXCEPT !.why = "uninit"])
                   /\ UNCHANGED << change_tick, state >>
              ELSE LET r == FRS_is_changed(ParamOf(h), state[h], WorldView)
                   IN  /\ state' = [state EXCEPT ![h] = Some(r.st)]
                       /\ change_tick' = r.tick
                       /\ cur' = Some(Turn(e, h, "checked", r.res, r.calls,
                                           state[h], Some(r.st)))
                       /\ UNCHANGED poisoned
    /\ UNCHANGED << scenario, last_change_tick, comp, res, attached, queue, pc, todo,
                    runs, inits, dirty, fresh, seen, panics, detaches >>

\* The loop body up to the condition: lock().unwrap(), which panics when the
\* mutex is poisoned, then is_changed, whose unwrap of the state panics under
\* the lock when init has not run.
ReactCheck(e) ==
    /\ pc = "sweep"
    /\ cur = None
    /\ e \in todo
    /\ LET h == attached[e][1]
           panicked == Turn(e, h, "panicked", FALSE, << >>, state[h], state[h])
       IN  /\ h \notin locked
           /\ IF poisoned[h]
              THEN /\ cur' = Some([panicked EXCEPT !.why = "poisoned"])
                   /\ UNCHANGED << change_tick, state, poisoned, locked, visit >>
              ELSE /\ locked' = locked \cup { h }
                   /\ visit' = [visit EXCEPT ![e].checks = @ + 1]
                   /\ IF state[h] = None
                      THEN /\ poisoned' = [poisoned EXCEPT ![h] = TRUE]
                           /\ cur' = Some([panicked EXCEPT !.why = "uninit"])
                           /\ UNCHANGED << change_tick, state >>
                      ELSE LET r == FRS_is_changed(ParamOf(h), state[h], WorldView)
                           IN  /\ state' = [state EXCEPT ![h] = Some(r.st)]
                               /\ change_tick' = r.tick
                               /\ cur' = Some(Turn(e, h, "checked", r.res, r.calls,
                                                   state[h], Some(r.st)))
                               /\ UNCHANGED poisoned
    /\ UNCHANGED << scenario, last_change_tick, comp, res, attached, queue, pc, todo,
                    runs, inits, dirty, fresh, seen, panics, detaches >>

\* (mutant) run's commands are applied to the store before run returns.
ReactRun_ApplyNow ==
    /\ pc = "sweep"
    /\ cur # None
    /\ cur[1].phase = "checked"
    /\ cur[1].changed
    /\ LET h == cur[1].h
           r == FRS_run(ParamOf(h), state[h], WorldView, LogicOf(h))
           W == ApplyQueue([tick |-> r.tick, comp |-> comp, res |-> res,
                            attached |-> attached,
                            state |-> [state EXCEPT ![h] = r.st],
                            poisoned |-> poisoned, queue |-> queue \o r.cmds,
                            inits |-> inits, dirty |-> [dirty EXCEPT ![h] = FALSE],
                            fresh |-> fresh, seen |-> seen, panics |-> panics])
       IN  /\ state' = W.state
           /\ change_tick' = r.tick
           /\ queue' = W.queue
           /\ comp' = W.comp
           /\ res' = W.res
           /\ attached' = W.attached
           /\ inits' = W.inits
           /\ dirty' = W.dirty
           /\ fresh' = W.fresh
           /\ seen' = W.seen
           /\ panics' = W.panics
           /\ runs' = [runs EXCEPT ![h] = @ + 1]
           /\ visit' = [visit EXCEPT ![cur[1].e].runs = @ + 1]
           /\ cur' = Some([cur[1] EXCEPT !.phase = "done", !.ran = TRUE, !.after = r.st,
                                         !.scope = Some(RSPF_run(Unit, cur[1].e)),
                                         !.views = LiveViews(ParamOf(h))])
    /\ UNCHANGED << scenario, last_change_tick, poisoned, pc, todo, locked, detaches >>

\* The body of the `if`: system.run((), world.reborrow(), entity).
ReactRun ==
    /\ pc = "sweep"
    /\ cur # None
    /\ cur[1].phase = "checked"
    /\ cur[1].changed
    /\ LET h == cur[1].h
           r == FRS_run(ParamOf(h), state[h], WorldView, LogicOf(h))
       IN  /\ state' = [state EXCEPT ![h] = r.st]
           /\ change_tick' = r.tick
           /\ queue' = queue \o r.cmds
           /\ runs' = [runs EXCEPT ![h] = @ + 1]
           /\ dirty' = [dirty EXCEPT ![h] = FALSE]
           /\ visit' = [visit EXCEPT ![cur[1].e].runs = @ + 1]
           /\ cur' = Some([cur[1] EXCEPT !.phase = "done", !.ran = TRUE, !.after = r.st,
                                         !.scope = Some(RSPF_run(Unit, cur[1].e)),
                                         !.views = LiveViews(ParamOf(h))])
    /\ UNCHANGED << scenario, last_change_tick, comp, res, attached, poisoned, pc, todo,
                    inits, fresh, seen, panics, locked, detaches >>

\* The same call when the user logic panics: get has been executed, then the
\* panic unwinds through run with the lock held, which poisons the mutex.
ReactRunPanic ==
    /\ pc = "sweep"
    /\ cur # None
    /\ cur[1].phase = "checked"
    /\ cur[1].changed
    /\ MayPanic(cur[1].h)
    /\ LET h == cur[1].h
           r == FRS_run(ParamOf(h), state[h], WorldView, LogicOf(h))
       IN  /\ state' = [state EXCEPT ![h] = r.st]
           /\ change_tick' = r.tick
           /\ poisoned' = [poisoned EXCEPT ![h] = TRUE]
           /\ runs' = [runs EXCEPT ![h] = @ + 1]
           /\ visit' = [visit EXCEPT ![cur[1].e].runs = @ + 1]
           /\ cur' = Some([cur[1] EXCEPT !.phase = "panicked", !.why = "logic",
                                         !.ran = TRUE, !.after = r.st,
                                         !.scope = Some(RSPF_run(Unit, cur[1].e)),
                                         !.views = LiveViews(ParamOf(h))])
    /\ UNCHANGED << scenario, last_change_tick, comp, res, attached, queue, pc, todo,
                    inits, dirty, fresh, seen, panics, locked, detaches >>

\* (mutant) run is called although is_changed was false.
ReactSkip_RunAnyway ==
    /\ pc = "sweep"
    /\ cur # None
    /\ cur[1].phase = "checked"
    /\ ~cur[1].changed
    /\ LET h == cur[1].h
           r == FRS_run(ParamOf(h), state[h], WorldView, LogicOf(h))
       IN  /\ state' = [state EXCEPT ![h] = r.st]
           /\ change_tick' = r.tick
           /\ queue' = queue \o r.cmds
           /\ runs' = [runs EXCEPT ![h] = @ + 1]
           /\ dirty' = [dirty EXCEPT ![h] = FALSE]
           /\ visit' = [visit EXCEPT ![cur[1].e].runs = @ + 1]
           /\ cur' = Some([cur[1] EXCEPT !.phase = "done", !.ran = TRUE, !.after = r.st,
                                         !.scope = Some(RSPF_run(Unit, cur[1].e)),
                                         !.views = LiveViews(ParamOf(h))])
    /\ UNCHANGED << scenario, last_change_tick, comp, res, attached, poisoned, pc, todo,
                    inits, fresh, seen, panics, locked, detaches >>

\* is_changed was false: the `if` is not entered.
ReactSkip ==
    /\ pc = "sweep"
    /\ cur # None
    /\ cur[1].phase = "checked"
    /\ ~cur[1].changed
    /\ cur' = Some([cur[1] EXCEPT !.phase = "done"])
    /\ UNCHANGED << scenario, change_tick, last_change_tick, comp, res, attached, state,
                    poisoned, queue, pc, todo, runs, inits, dirty, fresh, seen, panics,
                    locked, visit, detaches >>

\* (mutant) the guard is not dropped at the end of the iteration.
ReactNext_KeepLock ==
    /\ pc = "sweep"
    /\ cur # None
    /\ cur[1].phase = "done"
    /\ todo' = todo \ { cur[1].e }
    /\ cur' = None
    /\ fresh' = [fresh EXCEPT ![cur[1].h] = {}]
    /\ seen' = [seen EXCEPT ![cur[1].h] = TRUE]
    /\ UNCHANGED << scenario, change_tick, last_change_tick, comp, res, attached, state,
                    poisoned, queue, pc, runs, inits, dirty, panics, locked, visit,
                    detaches >>

\* End of the iteration: the guard is dropped and the loop goes on.
ReactNext ==
    /\ pc = "sweep"
    /\ cur # None
    /\ cur[1].phase = "done"
    /\ todo' = todo \ { cur[1].e }
    /\ cur' = None
    /\ fresh' = [fresh EXCEPT ![cur[1].h] = {}]
    /\ seen' = [seen EXCEPT ![cur[1].h] = TRUE]
    /\ locked' = locked \ { cur[1].h }
    /\ UNCHANGED << scenario, change_tick, last_change_tick, comp, res, attached, state,
                    poisoned, queue, pc, runs, inits, dirty, panics, visit, detaches >>

\* A panic unwinds out of `react`: the rest of the sweep is not executed.
ReactPanic ==
    /\ pc = "sweep"
    /\ cur # None
    /\ cur[1].phase = "panicked"
    /\ pc' = "idle"
    /\ todo' = {}
    /\ cur' = None
    /\ locked' = locked \ { cur[1].h }
    /\ UNCHANGED << scenario, change_tick, last_change_tick, comp, res, attached, state,
                    poisoned, queue, runs, inits, dirty, fresh, seen, panics, visit,
                    detaches >>

\* The query is exhausted: `react` returns.
SweepEnd ==
    /\ pc = "sweep"
    /\ cur = None
    /\ todo = {}
    /\ pc' = "idle"
    /\ UNCHANGED << scenario, change_tick, last_change_tick, comp, res, attached, state,
                    poisoned, queue, todo, cur, runs, inits, dirty, fresh, seen, panics,
                    locked, visit, detaches >>

Next ==
    \/ \E e \in Ids, h \in Handles : Attach(e, h)
    \/ \E e \in Ids : Detach(e)
    \/ Flush
    \/ \E row \in AllRows : Mutate(row)
    \/ \E r \in AllResources : SetRes(r)
    \/ ClearTrackers
    \/ SweepStart
    \/ \E e \in Ids : ReactCheck(e)
    \/ ReactRun
    \/ ReactRunPanic
    \/ ReactSkip
    \/ ReactNext
    \/ ReactPanic
    \/ SweepEnd

Spec == Init /\ [][Next]_vars

(* ------------------------------ claims --------------------------------- *)

\* The turn in progress, once its `if` has been decided and executed.
Done == cur # None /\ cur[1].phase = "done"

\* The data a reaction reads, as named in `fresh`.
Targets(h) == ReadRows(ParamOf(h)) \cup { ResKey(r) : r \in ReadRes(ParamOf(h)) }

\* C1 (as stated): whatever the parameter shape, a sweep calls run only on a
\* reaction that never ran or whose data was written since it last ran.
C1_NoFalsePositive == Done /\ cur[1].ran => cur[1].dirty

\* C2 (as stated): a Ready reaction with a single read target, which was
\* written since the reaction's last turn, is run exactly once by the next
\* sweep, and is not run by a following sweep that no write preceded.
C2_ExactlyOnce ==
    Done /\ Cardinality(Targets(cur[1].h)) = 1 /\ cur[1].seen =>
        /\ cur[1].fresh # {} => cur[1].ran /\ runs[cur[1].h] = 1
        /\ cur[1].fresh = {} => ~cur[1].ran

\* C3: a reaction bound to two accessors is run by the sweep that follows a
\* write of the second accessor's target only; it is not run when neither
\* target was written since its last turn; when both were written it is run
\* once in that sweep.
IsTwoAccessors(p) == p.k = "Tuple2" /\ p.a.k = "Query" /\ p.b.k = "Query"

C3_TwoAccessors ==
    Done /\ IsTwoAccessors(ParamOf(cur[1].h)) =>
        LET p == ParamOf(cur[1].h)
            f1 == cur[1].fresh \cap ReadRows(p.a)
            f2 == cur[1].fresh \cap ReadRows(p.b)
        IN  /\ f1 = {} /\ f2 # {} => cur[1].ran
            /\ f1 = {} /\ f2 = {} /\ cur[1].seen => ~cur[1].ran
            /\ f1 # {} /\ f2 # {} => cur[1].ran /\ runs[cur[1].h] = 1
            /\ runs[cur[1].h] <= 1

C3_Witness ==
    /\ Done /\ IsTwoAccessors(ParamOf(cur[1].h))
    /\ cur[1].seen /\ cur[1].fresh = { RZ } /\ cur[1].ran

\* C4: a reaction whose only read parameter is a resource is run by a turn
\* exactly when that resource's change flag is set in the store at the turn,
\* whatever was written to other resources and to components.
ResFlag(r) == IsNewerThan(res[r], last_change_tick, change_tick)

C4_ResourceFlag ==
    cur # None /\ cur[1].phase # "panicked" /\ ParamOf(cur[1].h).k = "Res" =>
        /\ cur[1].changed <=> ResFlag(ParamOf(cur[1].h).r)
        /\ cur[1].phase = "done" => (cur[1].ran <=> ResFlag(ParamOf(cur[1].h).r))

C4_Witness ==
    /\ Done /\ ParamOf(cur[1].h).k = "Res" /\ ~cur[1].ran
    /\ \E r \in Resources : r # ParamOf(cur[1].h).r /\ ResFlag(r)

\* C5 (as stated): init is invoked exactly once on a Reaction, so that its
\* persistent state is constructed once and never reconstructed.
C5_InitOnce == \A h \in Handles : inits[h] <= 1

\* C6: a reaction spawned by another reaction's logic is neither attached nor
\* initialised while `react` executes: no step taken during a sweep changes
\* the attachments or calls init, and a reaction goes from Uninitialized to
\* Ready only in a step that applies the command queue.
C6_DeferredInit ==
    [][ /\ pc = "sweep" =>
              /\ attached' = attached
              /\ inits' = inits
              /\ \A h \in Handles : state[h] = None <=> state'[h] = None
        /\ \A h \in Handles :
              state[h] = None /\ state'[h] # None =>
                  /\ pc = "idle" /\ queue # << >> /\ Len(queue') < Len(queue)
                  /\ inits'[h] > inits[h]
                  /\ \E e \in Ids : attached'[e] = Some(h)
      ]_vars

HasSpawn(h) == \E i \in 1..Len(LogicOf(h)) : LogicOf(h)[i].op = "spawn"

C6_Witness ==
    /\ Done /\ cur[1].ran /\ HasSpawn(cur[1].h)
    /\ \E i \in 1..Len(queue) :
          /\ queue[i].op = "spawn"
          /\ attached[queue[i].e] = None
          /\ state[queue[i].h] = None
          /\ inits[queue[i].h] = 0

\* C7: what a reaction's logic writes through the command sink reaches the
\* store only after the sweep: no step of a sweep changes component or
\* resource data, so a reaction whose data was not written since its last
\* turn is not run in this sweep although the write is already queued; once
\* the queue has been applied, the next turn of the reader runs it.
PendingWrite(h) ==
    \E i \in 1..Len(queue) : queue[i].op = "mutate" /\ queue[i].row \in ReadRows(ParamOf(h))

C7_Turn ==
    Done /\ ReadRes(ParamOf(cur[1].h)) = {} /\ ReadRows(ParamOf(cur[1].h)) # {} =>
        /\ cur[1].seen /\ cur[1].fresh = {} => ~cur[1].ran
        /\ cur[1].fresh # {} => cur[1].ran

C8_SinkNeverChanged ==
    /\ \A h \in Handles : ParamOf(h) = PCommands => runs[h] = 0
    /\ cur # None /\ cur[1].phase # "panicked" =>
          /\ \A i \in 1..Len(cur[1].calls) :
                cur[1].calls[i].p = PCommands => ~cur[1].calls[i].res
          /\ cur[1].changed <=>
                \E i \in 1..Len(cur[1].calls) :
                    cur[1].calls[i].p # PCommands /\ cur[1].calls[i].res

C8_Witness ==
    /\ Done /\ ParamOf(cur[1].h) = PCommands /\ ~cur[1].ran
    /\ \E r \in Resources : res[r] > 1
    /\ \E row \in Rows : comp[row] > 1

\* C9 (as stated): every is_changed of a tuple executes both members' checks.
IsTuple2Turn == cur # None /\ cur[1].phase # "panicked" /\ ParamOf(cur[1].h).k = "Tuple2"

IsQueryRes(p) == p.k = "Tuple2" /\ p.a.k = "Query" /\ p.b.k = "Res"

OnlyResWritten ==
    /\ Done /\ IsQueryRes(ParamOf(cur[1].h))
    /\ cur[1].seen /\ cur[1].fresh = { ResKey(ParamOf(cur[1].h).b.r) }

C10_CursorUnaffected ==
    OnlyResWritten =>
        /\ cur[1].ran /\ runs[cur[1].h] = 1
        /\ cur[1].after[1][1] = cur[1].before[1][1]

\* C10 (amended): after a write of Y only, the next sweep runs the reaction
\* once if Y's change flag is still set at that sweep and not otherwise; the
\* check advances the X-side cursor to the world's tick at the check and
\* run's get advances it again; no change of X is skipped by that, no row of
\* X being newer than the cursor was.
C10_CursorAdvanced ==
    OnlyResWritten =>
        LET p == ParamOf(cur[1].h)
            b == cur[1].before[1][1].last_run
            c == cur[1].checked[1][1].last_run
            a == cur[1].after[1][1].last_run
        IN  /\ cur[1].ran <=> ResFlag(p.b.r)
            /\ runs[cur[1].h] = (IF cur[1].ran THEN 1 ELSE 0)
            /\ b < c
            /\ IF cur[1].ran THEN a = c + 1 /\ change_tick = a + 1
                             ELSE a = c /\ change_tick = c + 1
            /\ \A row \in ReadRows(p.a) : ~IsNewerThan(comp[row], b, change_tick)

C10_Witness == OnlyResWritten /\ cur[1].ran /\ cur[1].after[1][1] # cur[1].before[1][1]

\* C11 (as stated): every Reaction on which `react` calls is_changed or run
\* is Ready: its persistent state is present when the call is made.
C11_NeverUninitialized ==
    cur # None /\ cur[1].why # "poisoned" => cur[1].before # None

\* C12: whenever the user logic is called, the Scope it receives carries the
\* identity of the attachment being visited and the unit input; the user
\* logic of a reaction that is not run receives nothing.
C12_ScopeIdentity ==
    cur # None =>
        /\ attached[cur[1].e] = Some(cur[1].h)
        /\ cur[1].ran => cur[1].scope = Some([entity |-> cur[1].e, input |-> Unit])
        /\ ~cur[1].ran => cur[1].scope = None

C12_Witness ==
    /\ Done /\ cur[1].ran /\ cur[1].e = "r2" /\ attached["r1"] # None
    /\ cur[1].scope[1].entity = "r2"

\* C13 (as stated): when a sweep ends, every pair attached at its start has
\* had exactly one is_changed check and at most one run, and run is called
\* only after a check that returned true.
C13_OneCheckPerPair ==
    [][ /\ pc = "sweep" /\ pc' = "idle" =>
              \A e \in Attached : visit[e].checks = 1 /\ visit[e].runs <= 1
        /\ cur' # None /\ cur'[1].ran => cur'[1].changed
      ]_vars

\* C13 (amended): in a sweep every attached pair has at most one is_changed
\* check and at most one run, and run is called only after a check of the
\* same turn returned true; the pairs left to visit only decrease, one per
\* turn, so the sweep ends; a sweep that returns has checked every attached
\* pair exactly once, and a sweep that a panic ends has checked none of the
\* pairs it had not reached.
C13_AtMostOnce ==
    [][ /\ \A e \in Ids : visit'[e].checks <= 1 /\ visit'[e].runs <= visit'[e].checks
        /\ cur' # None /\ cur'[1].ran => cur'[1].changed /\ visit'[cur'[1].e].runs = 1
        /\ pc = "sweep" /\ pc' = "sweep" =>
              /\ todo' \subseteq todo
              /\ cur # None /\ cur' = None => todo' # todo
        /\ pc = "sweep" /\ pc' = "idle" =>
              IF cur = None
              THEN \A e \in Attached : visit[e].checks = 1
              ELSE \A e \in todo \ { cur[1].e } : visit[e].checks = 0
      ]_vars

C13_Witness ==
    /\ pc = "idle" /\ cur = None /\ Cardinality(Attached) = 2
    /\ \A e \in Attached : visit[e].checks = 1
    /\ \E e \in Attached : visit[e].runs = 1
    /\ \E e \in Attached : visit[e].runs = 0

\* C14: from the start of a reaction's is_changed to the end of its turn no
\* step changes the component data, the resource data or the attachments;
\* what the user logic enqueues during run stays in the command queue.
C14_TurnFrame ==
    [][ pc = "sweep" /\ (cur # None \/ cur' # None) =>
            /\ comp' = comp
            /\ res' = res
            /\ attached' = attached
            /\ IF cur # None /\ cur' # None /\ ~cur[1].ran /\ cur'[1].ran
                   /\ cur'[1].phase = "done" /\ HasSink(ParamOf(cur[1].h))
               THEN queue' = queue \o LogicOf(cur[1].h)
               ELSE queue' = queue
      ]_vars

C14_Witness ==
    /\ Done /\ cur[1].ran /\ HasSink(ParamOf(cur[1].h))
    /\ queue # << >> /\ queue[Len(queue)] = CmdMutate(RX)
    /\ comp[RX] < change_tick - 1

\* C15: at most one Reaction's lock is held at any instant; it is held from
\* the reaction's check to the end of its turn, no lock is held between two
\* turns, and none when `react` is not executing.
C15_LockScoped ==
    /\ Cardinality(locked) <= 1
    /\ pc = "idle" => locked = {}
    /\ cur = None => locked = {}
    /\ cur # None /\ cur[1].phase \in { "checked", "done" } => locked = { cur[1].h }

C15_Witness ==
    /\ pc = "sweep" /\ cur = None /\ todo # {} /\ locked = {}
    /\ \E e \in Attached \ todo : visit[e].checks = 1 /\ attached[e] # attached[CHOOSE x \in todo : TRUE]

\* C16: the step that visits a Reaction whose lock is poisoned panics: it
\* calls neither is_changed nor run, leaves every Reaction's persistent state
\* and the store's tick as they were, and `react` unwinds.
C16_PoisonedAborts ==
    [][ /\ cur = None /\ cur' # None /\ poisoned[cur'[1].h] =>
              /\ cur'[1].phase = "panicked" /\ cur'[1].why = "poisoned"
              /\ state' = state /\ visit' = visit /\ runs' = runs
              /\ change_tick' = change_tick /\ poisoned' = poisoned
        /\ cur # None /\ cur[1].why = "poisoned" =>
              /\ pc' = "idle" /\ cur' = None
              /\ state' = state /\ visit' = visit /\ runs' = runs
      ]_vars

C16_Witness ==
    /\ cur # None /\ cur[1].why = "poisoned"
    /\ state[cur[1].h] # None /\ visit[cur[1].e].checks = 0

\* C17: a reaction bound to Query<&T, F> is triggered by a turn exactly when
\* some row that matches F had its T written since the accessor's cursor;
\* rows that do not match F never trigger it.
IsFiltered(p) == p.k = "Query" /\ p.f = "F"

MatchingRows(p) == { row \in Rows : row[2] = p.c /\ row[1] \in MatchesF }

C17_FilterConjunction ==
    cur # None /\ cur[1].phase \in { "checked", "done" } /\ IsFiltered(ParamOf(cur[1].h)) =>
        LET p == ParamOf(cur[1].h)
            b == cur[1].before[1].last_run
        IN  /\ cur[1].changed <=> \E row \in MatchingRows(p) : comp[row] > b
            /\ cur[1].seen => (cur[1].changed <=> cur[1].fresh \cap MatchingRows(p) # {})
            /\ cur[1].phase = "done" => (cur[1].ran <=> cur[1].changed)

C17_Witness ==
    /\ Done /\ IsFiltered(ParamOf(cur[1].h)) /\ cur[1].seen /\ ~cur[1].ran
    /\ comp[RX2] > cur[1].before[1].last_run

\* C18 (as stated): at every instant at most one exclusive view of the store
\* is live, also while a tuple's get builds its members' views.
C18_OneLiveView == cur # None => cur[1].views <= 1

\* C19: the clones of a Reaction attached to two identities share one
\* persistent state: in a sweep, the identity visited first is run when the
\* read target was written since the reaction's last turn, and the identity
\* visited second is not run, so that one change gives one run.
Clones(h) == { e \in Ids : attached[e] = Some(h) }

C19_SharedCursor ==
    Done /\ Cardinality(Clones(cur[1].h)) = 2 /\ ParamOf(cur[1].h).k = "Query" =>
        LET first == { e \in Clones(cur[1].h) \ { cur[1].e } : visit[e].checks = 1 }
        IN  /\ first = {} /\ cur[1].fresh # {} => cur[1].ran
            /\ first # {} => ~cur[1].ran /\ cur[1].fresh = {}
            /\ runs[cur[1].h] <= 1

C19_Witness ==
    /\ Done /\ Cardinality(Clones(cur[1].h)) = 2 /\ ~cur[1].ran
    /\ \E e \in Clones(cur[1].h) \ { cur[1].e } : visit[e].checks = 1 /\ visit[e].runs = 1
    /\ comp[RX] > 1 /\ inits[cur[1].h] = 2

\* C20: when the world applies an init command, it initialises the Reaction
\* that the identity carries at that moment; when the identity carries none,
\* the command panics: it is consumed, the flush ends there and no Reaction
\* is initialised.
C20_InitAtApplication ==
    [][ pc = "idle" /\ queue # << >> /\ Head(queue).op = "init"
        /\ (inits' # inits \/ panics' # panics \/ Len(queue') < Len(queue)) =>
            LET e == Head(queue).e
            IN  /\ attached[e] = None =>
                      /\ panics' = panics + 1
                      /\ queue' = Tail(queue)
                      /\ inits' = inits
                      /\ state' = state
                /\ attached[e] # None /\ ~poisoned[attached[e][1]] =>
                      /\ inits'[attached[e][1]] > inits[attached[e][1]]
                      /\ state'[attached[e][1]] # None
                /\ \A h \in Handles :
                      inits'[h] > inits[h] => \E x \in Ids : attached'[x] = Some(h)
      ]_vars

C20_Witness ==
    /\ panics > 0 /\ detaches > 0 /\ queue = << >>
    /\ \A h \in Handles : inits[h] = 0 /\ ~poisoned[h]

====
